---- MODULE Spec2Model ----
(***************************************************************************)
(* Model of the video quality controller of mediastreamer2                 *)
(* (src/voip/msvideoqualitycontroller.c).                                  *)
(*                                                                         *)
(* The controller is driven by two entry points that the host serialises:  *)
(*   ms_video_quality_controller_update_from_tmmbr  (bandwidth feedback)   *)
(*   ms_video_quality_controller_process_timer      (periodic tick)        *)
(* Both go through update_video_quality_from_bitrate, which reads and      *)
(* writes the encoder, the source and the stream.                          *)
(*                                                                         *)
(* Float thresholds are named in tenths (1.0f = 10, 1.3f = 13); the        *)
(* division by 1.3f is the single-precision division of the build, and the *)
(* (int) cast truncates toward zero.                                       *)
(***************************************************************************)
EXTENDS Integers, Sequences, FiniteSets, TLC

VARIABLES
    now,                      \* value ms_time(NULL) returns, in seconds
    last_tmmbr,               \* obj->last_tmmbr
    increase_timer_running,   \* obj->increase_timer_running
    increase_timer_start,     \* obj->increase_timer_start
    last_vsize,               \* obj->last_vsize
    sent_vsize,               \* obj->stream->sent_vsize
    preview_vsize,            \* obj->stream->preview_vsize
    forced_fps,               \* obj->stream->forced_fps
    configured_fps,           \* obj->stream->configured_fps
    source_fps,               \* fps last pushed to the source by MS_FILTER_SET_FPS
    enc_vconf,                \* the encoder's current MSVideoConfiguration
    vconf_list,               \* the encoder's configuration list ({} is NULL)
    ev,                       \* record of what the last handler call did
    inc_time,                 \* time of the most recent increase feedback (-1: none)
    inc_value,                \* value carried by that increase (-1 once a decrease
                              \* has followed it)
    dec_since,                \* a decrease feedback happened since that increase
    fired_since,              \* the cooldown fired since that increase
    armed_before              \* the timer when the last feedback call began:
                              \* "idle", or running since "now" or since "earlier"

ctrl    == <<last_tmmbr, increase_timer_running, increase_timer_start, last_vsize>>
stream  == <<sent_vsize, preview_vsize, forced_fps, configured_fps>>
filters == <<source_fps, enc_vconf, vconf_list>>
history == <<inc_time, inc_value, dec_since, fired_since>>
vars    == <<now, ctrl, stream, filters, ev, history, armed_before>>

----------------------------------------------------------------------------
(* Bounds of the model *)

MaxTime  == 10     \* the clock runs from 0 to MaxTime seconds
MaxTmmbr == 3      \* feedback values are 0..MaxTmmbr

Tmmbrs == 0..MaxTmmbr

(* Program constants *)

INCREASE_TIMER_DELAY       == 10
INCREASE_BITRATE_THRESHOLD == 13     \* 1.3f, in tenths
UNIT_THRESHOLD             == 10     \* 1.0f, in tenths
NO_TMMBR                   == -1     \* initial obj->last_tmmbr

----------------------------------------------------------------------------
(* Video sizes and configurations *)

VSize(w, h) == [width |-> w, height |-> h]

ZeroSize == VSize(0, 0)          \* ms_new0 leaves obj->last_vsize zeroed
QCIF     == VSize(176, 144)
VGA      == VSize(640, 480)
VGA_P    == VSize(480, 640)      \* portrait: same pixel count as VGA

VConf(req, lim, vs, f) ==
    [required_bitrate |-> req, bitrate_limit |-> lim, vsize |-> vs, fps |-> f]

NoConf == VConf(-1, -1, ZeroSize, 0)    \* "no configuration" in the event record

(* what the controller writes in the configuration it applies *)
Applied(req, f) == [required_bitrate |-> req, fps |-> f]

NotApplied == Applied(-1, 0)            \* MS_VIDEO_ENCODER_SET_CONFIGURATION not called

(* The list of a supporting encoder holds landscape sizes; the stream starts *)
(* with the highest configuration, captured in portrait.                    *)
SupportedList ==
    { VConf(2, 3, VGA,  30),
      VConf(0, 1, QCIF, 15) }

Preferred == VConf(2, 3, VGA_P, 30)

UnsupportedList == {}            \* vconf_list == NULL

(* The same stream with bitrates in bits per second, for feedback values   *)
(* where single-precision division is inexact.                             *)
HighList ==
    { VConf(2076927, 3000000, VGA,  30),
      VConf(0,       1000000, QCIF, 15) }

HighPreferred == VConf(2076927, 3000000, VGA_P, 30)

HighTmmbrs == {500000, 2700004, 2700005}

ms_video_size_equal(a, b) == a.width = b.width /\ a.height = b.height

Pixels(vs) == vs.width * vs.height

(* 1.3f is the float 10905190 * 2^-23 = F32_THRESHOLD_NUM * 2^-22 *)
F32_THRESHOLD_NUM == 5452595

RECURSIVE Pow2(_)
Pow2(n) == IF n = 0 THEN 1 ELSE 2 * Pow2(n - 1)

RECURSIVE FloorLog2(_)
FloorLog2(n) == IF n < 2 THEN 0 ELSE 1 + FloorLog2(n \div 2)

(* quotient and remainder of (q * d + r) * 2^n by d, without wide products *)
RECURSIVE ShiftDiv(_, _, _, _)
ShiftDiv(q, r, d, n) ==
    IF n = 0 THEN <<q, r>>
    ELSE ShiftDiv(2 * q + (IF 2 * r >= d THEN 1 ELSE 0), (2 * r) % d, d, n - 1)

(* (int) (b / 1.3f) for 0 <= b < 2^23: the quotient b * 2^22 / NUM is      *)
(* rounded to the nearest float (24 significant bits), then truncated; the *)
(* rounding reaches the next integer when the fraction is within half an   *)
(* ulp of it.                                                              *)
F32DivTrunc(b) ==
    LET d  == F32_THRESHOLD_NUM
        qr == ShiftDiv(b \div d, b % d, d, 22)
        q  == qr[1]
        r  == qr[2]
        j  == 24 - FloorLog2(q)
    IN  IF q = 0 THEN 0
        ELSE IF d - r <= d \div Pow2(j) THEN q + 1 ELSE q

(* (int) (bitrate / bitrate_threshold): float division, truncated toward 0; *)
(* bitrate / 1.0f is the bitrate itself below 2^24                          *)
TargetBitrate(bitrate, thr10) ==
    IF thr10 = UNIT_THRESHOLD THEN bitrate
    ELSE IF bitrate >= 0 THEN F32DivTrunc(bitrate)
                         ELSE -F32DivTrunc(-bitrate)

(* Ranking by bitrate: a candidate whose required bitrate fits the target  *)
(* when one exists, otherwise any candidate of the list.                   *)
ms_video_find_best_configuration_for_bitrate(list, target) ==
    LET fit == {c \in list : c.required_bitrate <= target}
    IN  IF fit # {} THEN fit ELSE list

(* Ranking at a fixed size: the fps and bitrate limit of a candidate whose  *)
(* required bitrate fits the bitrate when one exists, otherwise of any     *)
(* candidate, at the size that was asked for.                              *)
ms_video_find_best_configuration_for_size_and_bitrate(list, vs, bitrate) ==
    LET fit == {c \in list : c.required_bitrate <= bitrate}
    IN  {[c EXCEPT !.vsize = vs] : c \in IF fit # {} THEN fit ELSE list}

(* video_stream_change_camera_skip_bitrate: the graph is rebuilt; the      *)
(* encoder may or may not have taken the new size and fps when it returns, *)
(* and its bitrate is left alone.                                          *)
video_stream_change_camera_skip_bitrate(cur, best) ==
    { cur, [cur EXCEPT !.vsize = best.vsize, !.fps = best.fps] }

----------------------------------------------------------------------------
(* Event record: what one handler call did *)

Call(bitrate, thr10, only_fps) ==
    [bitrate |-> bitrate, threshold |-> thr10, update_only_fps |-> only_fps]

NoCall == Call(-1, 0, FALSE)

Event(op, branch, tmmbr, call, outcome, target, best, vconf, setfps, applied, ok) ==
    [op |-> op, branch |-> branch, tmmbr |-> tmmbr, call |-> call,
     outcome |-> outcome, target |-> target, best |-> best, vconf |-> vconf,
     set_fps |-> setfps, applied |-> applied, apply_ok |-> ok]

(* A handler call that made no call to update_video_quality_from_bitrate *)
QuietEvent(op, branch, tmmbr) ==
    Event(op, branch, tmmbr, NoCall, "none", -1, NoConf, NoConf, FALSE, NotApplied,
          TRUE)

----------------------------------------------------------------------------
InitWith(lists, preferred, running) ==
    /\ now = 0
    /\ last_tmmbr = NO_TMMBR
    /\ increase_timer_running = running
    /\ increase_timer_start = 0
    /\ last_vsize = ZeroSize
    /\ vconf_list \in lists
    /\ enc_vconf = preferred
    /\ sent_vsize = enc_vconf.vsize
    /\ preview_vsize = enc_vconf.vsize
    /\ forced_fps = 0
    /\ configured_fps = enc_vconf.fps
    /\ source_fps = enc_vconf.fps
    /\ ev = QuietEvent("new", "none", -1)
    /\ inc_time = -1
    /\ inc_value = -1
    /\ dec_since = FALSE
    /\ fired_since = FALSE
    /\ armed_before = "idle"

(* the running flag set by the constructor *)
Init_Armed == InitWith({SupportedList, UnsupportedList}, Preferred, TRUE)

Init == InitWith({SupportedList, UnsupportedList}, Preferred, FALSE)

InitHigh == InitWith({HighList}, HighPreferred, FALSE)

----------------------------------------------------------------------------
(* update_video_quality_from_bitrate *)

(* if (!update_only_fps): the resolution search is made *)
SearchesResolution_Always(update_only_fps) == TRUE

SearchesResolution(update_only_fps) == ~update_only_fps

(* the test that decides a change of video definition *)
DefinitionChanges_SamePixels(best, cur) ==
    /\ ~ms_video_size_equal(last_vsize, best.vsize)
    /\ Pixels(best.vsize) = Pixels(cur.vsize)

DefinitionChanges_Either(best, cur) ==
    \/ ~ms_video_size_equal(last_vsize, best.vsize)
    \/ Pixels(best.vsize) # Pixels(cur.vsize)

DefinitionChanges_PixelsOnly(best, cur) ==
    Pixels(best.vsize) # Pixels(cur.vsize)

DefinitionChanges(best, cur) ==
    /\ ~ms_video_size_equal(last_vsize, best.vsize)
    /\ Pixels(best.vsize) # Pixels(cur.vsize)

(* if (current_vconf.fps != vconf.fps) *)
FpsChanges(cur, vconf) == cur.fps # vconf.fps

(* new_bitrate_limit = bitrate < vconf.bitrate_limit ? bitrate : vconf.bitrate_limit *)
new_bitrate_limit_Larger(bitrate, vconf) ==
    IF bitrate > vconf.bitrate_limit THEN bitrate ELSE vconf.bitrate_limit

new_bitrate_limit(bitrate, vconf) ==
    IF bitrate < vconf.bitrate_limit THEN bitrate ELSE vconf.bitrate_limit

(* The configuration handed to MS_VIDEO_ENCODER_SET_CONFIGURATION *)
AppliedConf(cur, vconf, bitrate) ==
    [cur EXCEPT !.fps = vconf.fps,
                !.required_bitrate = new_bitrate_limit(bitrate, vconf)]

(* vconf_list == NULL: nothing is done *)
Unsupported_SetsBitrate(op, branch, tmmbr, call) ==
    /\ enc_vconf' = [enc_vconf EXCEPT !.required_bitrate = call.bitrate]
    /\ UNCHANGED <<stream, source_fps, vconf_list, last_vsize>>
    /\ ev' = Event(op, branch, tmmbr, call, "unsupported", -1, NoConf, NoConf,
                   FALSE, NotApplied, TRUE)

Unsupported(op, branch, tmmbr, call) ==
    /\ UNCHANGED <<stream, filters, last_vsize>>
    /\ ev' = Event(op, branch, tmmbr, call, "unsupported", -1, NoConf, NoConf,
                   FALSE, NotApplied, TRUE)

(* The video definition is changed and the function returns *)
ChangeDefinition(op, branch, tmmbr, call, target, best) ==
    /\ sent_vsize' = best.vsize
    /\ preview_vsize' = best.vsize
    /\ forced_fps' = best.fps
    /\ enc_vconf' \in video_stream_change_camera_skip_bitrate(enc_vconf, best)
    /\ last_vsize' = best.vsize
    /\ UNCHANGED <<configured_fps, source_fps, vconf_list>>
    /\ ev' = Event(op, branch, tmmbr, call, "definition", target, best, NoConf,
                   FALSE, NotApplied, TRUE)

(* The fps and the bitrate are tuned at the current size *)
TuneFpsAndBitrate_Rollback(op, branch, tmmbr, call, target, best) ==
    \E vconf \in ms_video_find_best_configuration_for_size_and_bitrate(
                     vconf_list, enc_vconf.vsize, call.bitrate) :
    \E ok \in BOOLEAN :
        LET changes == FpsChanges(enc_vconf, vconf)
            applied == AppliedConf(enc_vconf, vconf, call.bitrate)
        IN  /\ source_fps' = IF changes THEN vconf.fps ELSE source_fps
            /\ configured_fps' = IF changes THEN vconf.fps ELSE configured_fps
            /\ enc_vconf' = IF ok THEN applied ELSE enc_vconf
            /\ last_vsize' = IF ok THEN last_vsize ELSE ZeroSize
            /\ UNCHANGED <<sent_vsize, preview_vsize, forced_fps, vconf_list>>
            /\ ev' = Event(op, branch, tmmbr, call, "tuned", target, best, vconf,
                           changes, Applied(applied.required_bitrate, applied.fps),
                           ok)

TuneFpsAndBitrate(op, branch, tmmbr, call, target, best) ==
    \E vconf \in ms_video_find_best_configuration_for_size_and_bitrate(
                     vconf_list, enc_vconf.vsize, call.bitrate) :
    \E ok \in BOOLEAN :
        LET changes == FpsChanges(enc_vconf, vconf)
            applied == AppliedConf(enc_vconf, vconf, call.bitrate)
        IN  /\ source_fps' = IF changes THEN vconf.fps ELSE source_fps
            /\ configured_fps' = IF changes THEN vconf.fps ELSE configured_fps
            /\ enc_vconf' = IF ok THEN applied ELSE enc_vconf
            /\ UNCHANGED <<sent_vsize, preview_vsize, forced_fps, last_vsize,
                           vconf_list>>
            /\ ev' = Event(op, branch, tmmbr, call, "tuned", target, best, vconf,
                           changes, Applied(applied.required_bitrate, applied.fps),
                           ok)

update_video_quality_from_bitrate(op, branch, tmmbr, bitrate, thr10, update_only_fps) ==
    LET call   == Call(bitrate, thr10, update_only_fps)
        target == TargetBitrate(bitrate, thr10)
    IN  IF vconf_list = UnsupportedList
        THEN Unsupported(op, branch, tmmbr, call)
        ELSE IF SearchesResolution(update_only_fps)
             THEN \E best \in ms_video_find_best_configuration_for_bitrate(
                                  vconf_list, target) :
                      IF DefinitionChanges(best, enc_vconf)
                      THEN ChangeDefinition(op, branch, tmmbr, call, target, best)
                      ELSE TuneFpsAndBitrate(op, branch, tmmbr, call, target, best)
             ELSE TuneFpsAndBitrate(op, branch, tmmbr, call, -1, NoConf)

(* A handler path that does not call update_video_quality_from_bitrate *)
NoUpdate(op, branch, tmmbr) ==
    /\ UNCHANGED <<stream, filters, last_vsize>>
    /\ ev' = QuietEvent(op, branch, tmmbr)

----------------------------------------------------------------------------
(* ms_video_quality_controller_process_timer *)

(* current_time - obj->increase_timer_start >= INCREASE_TIMER_DELAY *)
CooldownElapsed_Strict == now - increase_timer_start > INCREASE_TIMER_DELAY

CooldownElapsed == now - increase_timer_start >= INCREASE_TIMER_DELAY

ProcessTimer_StaysArmed ==
    /\ UNCHANGED <<now, last_tmmbr, increase_timer_start>>
    /\ armed_before' = "idle"
    /\ UNCHANGED <<inc_time, inc_value, dec_since>>
    /\ IF increase_timer_running
       THEN IF CooldownElapsed
            THEN /\ update_video_quality_from_bitrate("tick", "fired", -1,
                        last_tmmbr, INCREASE_BITRATE_THRESHOLD, FALSE)
                 /\ UNCHANGED increase_timer_running
                 /\ fired_since' = TRUE
            ELSE /\ NoUpdate("tick", "waiting", -1)
                 /\ UNCHANGED <<increase_timer_running, fired_since>>
       ELSE /\ NoUpdate("tick", "idle", -1)
            /\ UNCHANGED <<increase_timer_running, fired_since>>

ProcessTimer ==
    /\ UNCHANGED <<now, last_tmmbr, increase_timer_start>>
    /\ armed_before' = "idle"
    /\ UNCHANGED <<inc_time, inc_value, dec_since>>
    /\ IF increase_timer_running
       THEN IF CooldownElapsed
            THEN /\ update_video_quality_from_bitrate("tick", "fired", -1,
                        last_tmmbr, INCREASE_BITRATE_THRESHOLD, FALSE)
                 /\ increase_timer_running' = FALSE
                 /\ fired_since' = TRUE
            ELSE /\ NoUpdate("tick", "waiting", -1)
                 /\ UNCHANGED <<increase_timer_running, fired_since>>
       ELSE /\ NoUpdate("tick", "idle", -1)
            /\ UNCHANGED <<increase_timer_running, fired_since>>

----------------------------------------------------------------------------
(* ms_video_quality_controller_update_from_tmmbr *)

(* First TMMBR inferior to the required bitrate of the current configuration *)
FirstTmmbrInferior_Flipped(tmmbr) ==
    last_tmmbr = NO_TMMBR /\ tmmbr > enc_vconf.required_bitrate

FirstTmmbrInferior_Inclusive(tmmbr) ==
    last_tmmbr = NO_TMMBR /\ tmmbr <= enc_vconf.required_bitrate

FirstTmmbrInferior(tmmbr) ==
    last_tmmbr = NO_TMMBR /\ tmmbr < enc_vconf.required_bitrate

(* if (tmmbr > obj->last_tmmbr) *)
IsIncrease_OrEqual(tmmbr) == tmmbr >= last_tmmbr

IsIncrease(tmmbr) == tmmbr > last_tmmbr

(* else if (tmmbr < obj->last_tmmbr) *)
IsDecrease(tmmbr) == tmmbr < last_tmmbr

(* obj->increase_timer_start on the increase branch *)
IncreaseTimerStart_KeepRunning ==
    IF increase_timer_running THEN increase_timer_start ELSE now

IncreaseTimerStart == now

(* update_only_fps on the increase branch *)
IncreaseUpdateOnlyFps_Full == FALSE

IncreaseUpdateOnlyFps == TRUE

(* obj->increase_timer_running on the decrease branch *)
DecreaseTimerRunning_Kept == increase_timer_running

DecreaseTimerRunning == FALSE

(* obj->last_tmmbr when the first-TMMBR branch returns *)
FirstLastTmmbr_Stale(tmmbr) == last_tmmbr

FirstLastTmmbr(tmmbr) == tmmbr

(* obj->last_tmmbr at the end of the function *)
FinalLastTmmbr_Kept(tmmbr) == last_tmmbr

FinalLastTmmbr(tmmbr) == tmmbr

UpdateFromTmmbr(tmmbr) ==
    /\ UNCHANGED now
    /\ armed_before' = IF ~increase_timer_running THEN "idle"
                       ELSE IF increase_timer_start < now THEN "earlier" ELSE "now"
    /\ IF FirstTmmbrInferior(tmmbr)
       THEN /\ update_video_quality_from_bitrate("tmmbr", "first", tmmbr,
                   tmmbr, UNIT_THRESHOLD, FALSE)
            /\ last_tmmbr' = FirstLastTmmbr(tmmbr)
            /\ UNCHANGED <<increase_timer_running, increase_timer_start>>
            /\ UNCHANGED history
       ELSE /\ IF IsIncrease(tmmbr)
               THEN /\ increase_timer_start' = IncreaseTimerStart
                    /\ increase_timer_running' = TRUE
                    /\ update_video_quality_from_bitrate("tmmbr", "increase", tmmbr,
                           tmmbr, UNIT_THRESHOLD, IncreaseUpdateOnlyFps)
                    /\ inc_time' = now
                    /\ inc_value' = tmmbr
                    /\ dec_since' = FALSE
                    /\ fired_since' = FALSE
               ELSE IF IsDecrease(tmmbr)
               THEN /\ increase_timer_running' = DecreaseTimerRunning
                    /\ update_video_quality_from_bitrate("tmmbr", "decrease", tmmbr,
                           tmmbr, UNIT_THRESHOLD, FALSE)
                    /\ dec_since' = TRUE
                    /\ inc_value' = -1
                    /\ UNCHANGED <<increase_timer_start, inc_time, fired_since>>
               ELSE /\ NoUpdate("tmmbr", "equal", tmmbr)
                    /\ UNCHANGED <<increase_timer_running, increase_timer_start>>
                    /\ UNCHANGED history
            /\ last_tmmbr' = FinalLastTmmbr(tmmbr)

----------------------------------------------------------------------------
(* The clock read by ms_time(NULL) advances between handler calls *)
AdvanceTime ==
    /\ now < MaxTime
    /\ now' = now + 1
    /\ ev' = QuietEvent("time", "none", -1)
    /\ armed_before' = "idle"
    /\ UNCHANGED <<ctrl, stream, filters, history>>

Feedback == \E tmmbr \in Tmmbrs : UpdateFromTmmbr(tmmbr)

Next == AdvanceTime \/ ProcessTimer \/ Feedback

Spec == Init /\ [][Next]_vars

(* The same handlers, driven with feedback in bits per second *)
FeedbackHigh == \E tmmbr \in HighTmmbrs : UpdateFromTmmbr(tmmbr)

NextHigh == AdvanceTime \/ ProcessTimer \/ FeedbackHigh

SpecHigh == InitHigh /\ [][NextHigh]_vars

----------------------------------------------------------------------------
TypeOK ==
    /\ now \in 0..MaxTime
    /\ last_tmmbr \in Tmmbrs \cup {NO_TMMBR}
    /\ increase_timer_running \in BOOLEAN
    /\ increase_timer_start \in 0..MaxTime

----------------------------------------------------------------------------
(* Properties *)

MinOf(a, b) == IF a <= b THEN a ELSE b

(* C1: after any feedback call, whichever branch it took, last_tmmbr is the *)
(* value that was passed in.                                                *)
C1_LastTmmbrTracksFeedback ==
    ev.op = "tmmbr" => last_tmmbr = ev.tmmbr

C1_Witness ==
    /\ ev.op = "tmmbr"
    /\ ev.branch = "first"
    /\ ev.tmmbr = 1
    /\ last_tmmbr = 1

(* C2: a feedback call that takes the increase branch changes neither the   *)
(* sent or preview size, nor the forced fps, nor last_vsize, and does not   *)
(* switch the camera.                                                       *)
C2_IncreaseKeepsDefinition ==
    [][ (ev'.op = "tmmbr" /\ ev'.branch = "increase")
        => /\ UNCHANGED <<sent_vsize, preview_vsize, forced_fps, last_vsize>>
           /\ ev'.outcome # "definition" ]_vars

(* an increase was processed although the ranking for its bitrate offers a  *)
(* candidate that the definition test would accept                          *)
C2_Witness ==
    /\ ev.op = "tmmbr"
    /\ ev.branch = "increase"
    /\ ev.outcome = "tuned"
    /\ \E c \in ms_video_find_best_configuration_for_bitrate(vconf_list, ev.tmmbr) :
           /\ c.vsize # last_vsize
           /\ Pixels(c.vsize) # Pixels(enc_vconf.vsize)

(* C3 as stated: every change of definition is requested by a decrease      *)
(* feedback or by a tick on which the cooldown fired.                       *)
C3_Original ==
    ev.outcome = "definition" => ev.branch \in {"decrease", "fired"}

(* C3 amended: every change of definition is requested by a decrease        *)
(* feedback, by a first feedback below the required bitrate, or by a tick   *)
(* on which the cooldown fired.                                             *)
C3_DefinitionChangeSources ==
    ev.outcome = "definition" => ev.branch \in {"decrease", "fired", "first"}

C3_Witness ==
    /\ ev.outcome = "definition"
    /\ ev.branch = "fired"
    /\ Pixels(sent_vsize) > Pixels(QCIF)

(* C4: after an increase at inc_time with no increase or decrease since, a  *)
(* tick before inc_time+10 adjusts nothing and leaves the timer armed, the  *)
(* first tick at or after inc_time+10 makes the one call                    *)
(* (last_tmmbr, 1.3, full) and disarms the timer, later ticks adjust        *)
(* nothing.                                                                 *)
C4_Cooldown ==
    [][ (ev'.op = "tick" /\ inc_time # -1 /\ ~dec_since)
        => IF fired_since
           THEN ev'.call = NoCall /\ ~increase_timer_running'
           ELSE IF now < inc_time + 10
           THEN ev'.call = NoCall /\ increase_timer_running'
           ELSE /\ ev'.call = Call(last_tmmbr, 13, FALSE)
                /\ ~increase_timer_running' ]_vars

(* the cooldown fired exactly 10s after the increase *)
C4_Witness ==
    /\ ev.op = "tick"
    /\ ev.branch = "fired"
    /\ ~dec_since
    /\ now = inc_time + 10
    /\ ev.call = Call(inc_value, 13, FALSE)
    /\ ~increase_timer_running

(* C5: a decrease that arrives while the timer is armed disarms it and      *)
(* makes the one call (tmmbr, 1.0, full); no tick adjusts anything until an *)
(* increase arrives.                                                        *)
C5_DecreaseCancelsCooldown ==
    [][ /\ (ev'.op = "tmmbr" /\ increase_timer_running /\ ev'.tmmbr < last_tmmbr)
           => /\ ~increase_timer_running'
              /\ ev'.call = Call(ev'.tmmbr, 10, FALSE)
        /\ (ev'.op = "tick" /\ dec_since)
           => /\ ev'.call = NoCall
              /\ ~increase_timer_running' ]_vars

(* the decrease arrived when 10s had elapsed and no tick had run *)
C5_Witness ==
    /\ ev.op = "tmmbr"
    /\ ev.branch = "decrease"
    /\ armed_before # "idle"
    /\ now - increase_timer_start >= 10
    /\ ~fired_since
    /\ ~increase_timer_running

(* C6: every increase sets the start time of the timer to the current time, *)
(* and no tick adjusts less than 10s after the most recent increase.        *)
C6_IncreaseRestartsCooldown ==
    [][ /\ (ev'.op = "tmmbr" /\ ev'.branch = "increase")
           => increase_timer_start' = now
        /\ (ev'.op = "tick" /\ ev'.call # NoCall)
           => (inc_time # -1 /\ now - inc_time >= 10) ]_vars

(* an increase arrived while the timer was running since an earlier time *)
C6_Witness ==
    /\ ev.op = "tmmbr"
    /\ ev.branch = "increase"
    /\ armed_before = "earlier"
    /\ increase_timer_start = now

(* C7: a first feedback below the required bitrate makes the one call       *)
(* (tmmbr, 1.0, full), sets last_tmmbr and leaves the timer idle and its    *)
(* start time untouched.                                                    *)
C7_FirstInferior ==
    [][ (ev'.op = "tmmbr" /\ last_tmmbr = -1
                          /\ ev'.tmmbr < enc_vconf.required_bitrate)
        => /\ ev'.call = Call(ev'.tmmbr, 10, FALSE)
           /\ last_tmmbr' = ev'.tmmbr
           /\ ~increase_timer_running'
           /\ UNCHANGED <<increase_timer_running, increase_timer_start>> ]_vars

C7_Witness ==
    /\ ev.op = "tmmbr"
    /\ ev.branch = "first"
    /\ ev.call = Call(ev.tmmbr, 10, FALSE)
    /\ ~increase_timer_running
    /\ inc_time = -1

(* C8: a first feedback at or above the required bitrate takes the increase *)
(* branch: it arms the timer, makes the one call (tmmbr, 1.0, fps only) and *)
(* sets last_tmmbr.                                                         *)
C8_FirstNotInferior ==
    [][ (ev'.op = "tmmbr" /\ last_tmmbr = -1
                          /\ ev'.tmmbr >= enc_vconf.required_bitrate)
        => /\ ev'.branch = "increase"
           /\ ev'.call = Call(ev'.tmmbr, 10, TRUE)
           /\ increase_timer_running'
           /\ increase_timer_start' = now
           /\ last_tmmbr' = ev'.tmmbr ]_vars

(* the first feedback equalled the required bitrate *)
C8_Witness ==
    /\ ev.op = "tmmbr"
    /\ ev.branch = "increase"
    /\ armed_before = "idle"
    /\ inc_time = now
    /\ ev.tmmbr = Preferred.required_bitrate
    /\ last_vsize = ZeroSize
    /\ sent_vsize = Preferred.vsize
    /\ increase_timer_running
    /\ ~dec_since

(* C9: a full call whose ranked candidate differs from last_vsize and has   *)
(* another pixel count than the current configuration applies the change    *)
(* of definition and tunes nothing: no fps is set, the configured fps is    *)
(* kept, nothing is applied to the encoder, whose required bitrate stays.   *)
C9_DefinitionChangeReturns ==
    [][ (/\ ev'.call # NoCall
         /\ ~ev'.call.update_only_fps
         /\ ev'.best # NoConf
         /\ ev'.best.vsize # last_vsize
         /\ Pixels(ev'.best.vsize) # Pixels(enc_vconf.vsize))
        => /\ sent_vsize' = ev'.best.vsize
           /\ last_vsize' = ev'.best.vsize
           /\ ~ev'.set_fps
           /\ ev'.applied = NotApplied
           /\ UNCHANGED <<source_fps, configured_fps>>
           /\ enc_vconf'.required_bitrate = enc_vconf.required_bitrate ]_vars

(* the definition was changed by a call whose bitrate differs from the      *)
(* encoder's required bitrate and whose size ranking has another fps        *)
C9_Witness ==
    /\ ev.outcome = "definition"
    /\ sent_vsize = ev.best.vsize
    /\ ev.call.bitrate # enc_vconf.required_bitrate
    /\ ev.best.fps # configured_fps

(* C10: the required bitrate handed to the encoder is the minimum of the    *)
(* bitrate of the call and of the bitrate limit of the candidate of the     *)
(* ranking at the current size.                                             *)
C10_BitrateClamp ==
    ev.outcome = "tuned"
    => /\ ev.applied.required_bitrate
              = MinOf(ev.call.bitrate, ev.vconf.bitrate_limit)
       /\ ev.applied.required_bitrate <= ev.call.bitrate
       /\ ev.applied.required_bitrate <= ev.vconf.bitrate_limit
       /\ ev.apply_ok => enc_vconf.required_bitrate = ev.applied.required_bitrate

(* the bitrate of the call exceeded the limit of the candidate *)
C10_Witness ==
    /\ ev.outcome = "tuned"
    /\ ev.apply_ok
    /\ ev.call.bitrate > ev.vconf.bitrate_limit
    /\ enc_vconf.required_bitrate = ev.vconf.bitrate_limit

(* C11: with an encoder that has no configuration list, a call to           *)
(* update_video_quality_from_bitrate ranks nothing and changes nothing,     *)
(* while the handler keeps last_tmmbr and the timer up to date.             *)
C11_UnsupportedNoOp ==
    [][ (vconf_list = {} /\ ev'.op \in {"tmmbr", "tick"})
        => /\ UNCHANGED <<sent_vsize, preview_vsize, forced_fps, configured_fps,
                          source_fps, enc_vconf, last_vsize>>
           /\ ev'.best = NoConf /\ ev'.vconf = NoConf
           /\ ~ev'.set_fps /\ ev'.applied = NotApplied
           /\ ev'.op = "tmmbr" => last_tmmbr' = ev'.tmmbr
           /\ (ev'.op = "tmmbr" /\ last_tmmbr # -1 /\ ev'.tmmbr > last_tmmbr)
              => (increase_timer_running' /\ increase_timer_start' = now)
           /\ (ev'.op = "tmmbr" /\ ev'.tmmbr < last_tmmbr)
              => ~increase_timer_running'
           /\ (ev'.op = "tick" /\ increase_timer_running
                               /\ now - increase_timer_start >= 10)
              => (~increase_timer_running' /\ ev'.call = Call(last_tmmbr, 13, FALSE)) ]_vars

(* the cooldown fired on an encoder without a configuration list *)
C11_Witness ==
    /\ vconf_list = {}
    /\ ev.branch = "fired"
    /\ ev.outcome = "unsupported"
    /\ ev.call.bitrate = last_tmmbr
    /\ ~increase_timer_running
    /\ enc_vconf = Preferred

(* C12: a failed MS_VIDEO_ENCODER_SET_CONFIGURATION leaves the controller   *)
(* in the state a successful one leaves it in: whatever the result, after   *)
(* a call that tuned the fps and bitrate last_vsize is kept, last_tmmbr is  *)
(* the feedback value (kept by a tick), and the timer is what the branch    *)
(* taken makes it.                                                          *)
C12_ApplyFailureKeepsState ==
    [][ ev'.outcome = "tuned"
        => /\ last_vsize' = last_vsize
           /\ last_tmmbr' = IF ev'.op = "tick" THEN last_tmmbr ELSE ev'.tmmbr
           /\ increase_timer_running' =
                  CASE ev'.branch = "first"    -> increase_timer_running
                    [] ev'.branch = "increase" -> TRUE
                    [] OTHER                   -> FALSE
           /\ increase_timer_start' =
                  IF ev'.branch = "increase" THEN now ELSE increase_timer_start
        ]_vars

(* the apply failed after a decrease that had followed a change of          *)
(* definition                                                               *)
C12_Witness ==
    /\ ev.outcome = "tuned"
    /\ ~ev.apply_ok
    /\ ev.branch = "decrease"
    /\ last_vsize = QCIF
    /\ last_tmmbr = ev.tmmbr
    /\ ~increase_timer_running

(* C13: when MS_VIDEO_ENCODER_SET_CONFIGURATION fails, the fps of the       *)
(* source, the configured fps of the stream and the configuration of the    *)
(* encoder are what they were before the call.                              *)
C13_FailureKeepsQuality ==
    [][ (ev'.outcome = "tuned" /\ ~ev'.apply_ok)
        => UNCHANGED <<source_fps, configured_fps, enc_vconf>> ]_vars

(* C14: last_tmmbr never returns to -1, leaves -1 on the first feedback     *)
(* call, and is not changed by a tick.                                      *)
C14_Sentinel ==
    [][ /\ last_tmmbr # -1 => last_tmmbr' # -1
        /\ (ev'.op = "tmmbr" /\ last_tmmbr = -1) => last_tmmbr' # -1
        /\ ev'.op = "tick" => last_tmmbr' = last_tmmbr
        /\ (last_tmmbr = -1 /\ last_tmmbr' # -1) => ev'.op = "tmmbr" ]_vars

(* feedback fell back to 0 after the cooldown had fired *)
C14_Witness ==
    /\ ev.op = "tmmbr"
    /\ ev.branch = "decrease"
    /\ fired_since
    /\ last_tmmbr = 0

(* C15: when the cooldown fires, the resolution search is given             *)
(* last_tmmbr / 1.3 truncated to an integer, and a change of definition on  *)
(* that path is granted only to a candidate whose required bitrate is at    *)
(* most last_tmmbr / 1.3; the call itself carries the undivided bitrate.    *)
C15_SafetyMargin ==
    (ev.branch = "fired" /\ ev.outcome \in {"definition", "tuned"})
    => /\ ev.call.bitrate = last_tmmbr
       /\ ev.target = (last_tmmbr * 10) \div 13
       /\ ev.outcome = "definition"
          => ev.best.required_bitrate * 13 <= last_tmmbr * 10
       /\ ev.outcome = "tuned"
          => ev.applied.required_bitrate
                 = MinOf(last_tmmbr, ev.vconf.bitrate_limit)

(* C16: a feedback equal to last_tmmbr makes no call and changes neither    *)
(* the timer, nor last_vsize, nor the encoder, the source or the stream.    *)
C16_EqualIsInert ==
    [][ (ev'.op = "tmmbr" /\ last_tmmbr # -1 /\ ev'.tmmbr = last_tmmbr)
        => /\ ev'.call = NoCall
           /\ UNCHANGED <<last_tmmbr, increase_timer_running,
                          increase_timer_start, last_vsize>>
           /\ UNCHANGED <<stream, filters>> ]_vars

(* an equal feedback arrived while the cooldown was running *)
C16_Witness ==
    /\ ev.op = "tmmbr"
    /\ ev.branch = "equal"
    /\ armed_before = "earlier"
    /\ increase_timer_running
    /\ increase_timer_start < now
    /\ inc_time = increase_timer_start

(* C17: in a full call on a supporting encoder the definition is changed    *)
(* exactly when the candidate differs from last_vsize and has another pixel *)
(* count than the current configuration; the change sets the sent and       *)
(* preview sizes and last_vsize to the candidate's size and the forced fps  *)
(* to its fps; otherwise the call tunes fps and bitrate and leaves them.    *)
C17_DefinitionChangeCondition ==
    [][ (ev'.call # NoCall /\ ~ev'.call.update_only_fps /\ ev'.best # NoConf)
        => IF /\ ev'.best.vsize # last_vsize
              /\ ev'.best.vsize.width * ev'.best.vsize.height
                     # enc_vconf.vsize.width * enc_vconf.vsize.height
           THEN /\ ev'.outcome = "definition"
                /\ sent_vsize' = ev'.best.vsize
                /\ preview_vsize' = ev'.best.vsize
                /\ last_vsize' = ev'.best.vsize
                /\ forced_fps' = ev'.best.fps
           ELSE /\ ev'.outcome = "tuned"
                /\ UNCHANGED <<sent_vsize, preview_vsize, last_vsize, forced_fps>>
        ]_vars

(* the candidate had the pixel count of the current size but other          *)
(* dimensions, and the call tuned instead of changing the definition        *)
C17_Witness ==
    /\ ev.outcome = "tuned"
    /\ ~ev.call.update_only_fps
    /\ ev.best.vsize # last_vsize
    /\ ev.best.vsize # enc_vconf.vsize
    /\ Pixels(ev.best.vsize) = Pixels(enc_vconf.vsize)

(* C18: a running timer implies that a feedback was received; so a tick     *)
(* before any feedback adjusts nothing, the timer never passes -1 as        *)
(* bitrate, and the first-feedback branch is not taken with a running timer.*)
C18_ArmedImpliesTracking ==
    /\ increase_timer_running => last_tmmbr # -1
    /\ (ev.op = "tick" /\ last_tmmbr = -1) => ev.call = NoCall
    /\ ev.branch = "fired" => ev.call.bitrate >= 0
    /\ ev.branch = "first" => (armed_before = "idle" /\ ~increase_timer_running)

(* a tick ran 10s after the start and before any feedback *)
C18_Witness ==
    /\ ev.op = "tick"
    /\ last_tmmbr = -1
    /\ now >= 10
    /\ ev.call = NoCall
    /\ ~increase_timer_running

(* C19: when the cooldown fires, the bitrate passed is the value of the     *)
(* most recent increase, no decrease has followed that increase, and the    *)
(* cooldown had not fired since that increase.                              *)
C19_FiresOncePerIncrease ==
    [][ (ev'.op = "tick" /\ ev'.call # NoCall)
        => /\ ev'.call = Call(inc_value, 13, FALSE)
           /\ inc_value # -1
           /\ inc_time # -1
           /\ ~dec_since
           /\ ~fired_since ]_vars

(* the cooldown fired with the value of the increase received at time 0 *)
C19_Witness ==
    /\ ev.op = "tick"
    /\ ev.branch = "fired"
    /\ ev.call.bitrate = 3
    /\ inc_value = 3
    /\ inc_time = 0
    /\ fired_since

(* C20: a change of definition never requests the size requested last; it   *)
(* leaves the sent size, the preview size and last_vsize equal; and         *)
(* last_vsize is written by nothing else.                                   *)
C20_NoRepeatedRequest ==
    [][ /\ ev'.outcome = "definition"
           => /\ ev'.best.vsize # last_vsize
              /\ last_vsize' = ev'.best.vsize
              /\ sent_vsize' = last_vsize'
              /\ preview_vsize' = last_vsize'
        /\ last_vsize' # last_vsize => ev'.outcome = "definition" ]_vars

(* VGA was requested after QCIF had been requested and taken *)
C20_Witness ==
    /\ ev.outcome = "definition"
    /\ last_vsize = VGA
    /\ sent_vsize = VGA
    /\ preview_vsize = VGA
    /\ enc_vconf.vsize = QCIF

====
